---- MODULE Spec2Model ----
(***************************************************************************)
(* Model of app.py: the quadratic Bezier evaluator bezier_curve, and the   *)
(* point sampler generate_points_around_line, which is memoised by         *)
(* @st.cache_data and draws from the process-wide generator of module      *)
(* random.                                                                 *)
(*                                                                         *)
(* Numbers.  The code computes in floats.  The model computes exactly, on  *)
(* a grid: a draw of random() is u = k / Grid, so t = k / TDen and         *)
(* theta = 2*pi*k / Grid, an angle whose cosine and sine are integers.     *)
(* Every coordinate that bezier_curve or the sampler returns is held       *)
(* multiplied by Scale = TDen^2, which makes it an integer.                *)
(*                                                                         *)
(* Generator.  random.uniform reads the Mersenne Twister of module random; *)
(* the model keeps what matters of it: a state that decides every later    *)
(* draw, and that each draw advances (NextState, a full-period congruence  *)
(* on RngStates).  A process starts with the generator seeded from the     *)
(* operating system, which the model takes to be any state.                *)
(*                                                                         *)
(* Cache.  @st.cache_data stores what the function returned under its      *)
(* arguments, for the life of the process, and answers a later call with   *)
(* the same arguments from the store without running the body.             *)
(***************************************************************************)
EXTENDS Integers, Sequences, FiniteSets, TLC

VARIABLES
    rng,     \* state of the process-wide generator of module random
    cache,   \* entries of st.cache_data for generate_points_around_line
    calls,   \* calls of generate_points_around_line made by this process
    last,    \* the most recent call of this process: arguments and outcome
    ref,     \* the first call on record, kept for comparison with later calls
    curve    \* the most recent direct call of bezier_curve

vars == <<rng, cache, calls, last, ref, curve>>

----------------------------------------------------------------------------
(* Bounds of the model *)

MaxCount == 2        \* num_points ranges over -1 .. MaxCount
MaxDist  == 1        \* max_distance ranges over -1 .. MaxDist
MaxCalls == 2        \* calls of the sampler per process

----------------------------------------------------------------------------
(* Numbers *)

\* (cos theta, sin theta) for theta = 2*pi*k/Grid, k = 0 .. Grid-1, at index k+1
Directions == << <<1, 0>>, <<0, 1>>, <<-1, 0>>, <<0, -1>> >>

Grid == Len(Directions)

TDen == Grid

Scale == TDen * TDen

RngMod == Grid * Grid

RngStates == 0 .. (RngMod - 1)

\* The generator is deterministic: its state decides every later draw.
NextState(s) == ((Grid + 1) * s + 1) % RngMod

\* random(): the value k of the draw u = k / Grid taken in state s
random(s) == s \div Grid

\* random.uniform(0, 1) = 0 + (1 - 0) * random(): the numerator of t over TDen
uniform_0_1(s) == random(s)

\* random.uniform(0, 2*pi) = 0 + (2*pi - 0) * random(): theta as k, theta = 2*pi*k/Grid
uniform_0_2pi(s) == random(s)

cos(k) == Directions[k + 1][1]

sin(k) == Directions[k + 1][2]

----------------------------------------------------------------------------
(* bezier_curve *)

\* bezier_curve with A and B exchanged: A weighted t^2, B weighted (1-t)^2
bezier_curve_ends_swapped(tn, A, B, C) ==
    << (TDen - tn) * (TDen - tn) * B[1] + 2 * (TDen - tn) * tn * C[1] + tn * tn * A[1],
       (TDen - tn) * (TDen - tn) * B[2] + 2 * (TDen - tn) * tn * C[2] + tn * tn * A[2] >>

\* bezier_curve with B and C exchanged: B weighted 2(1-t)t, C weighted t^2
bezier_curve_control_swapped(tn, A, B, C) ==
    << (TDen - tn) * (TDen - tn) * A[1] + 2 * (TDen - tn) * tn * B[1] + tn * tn * C[1],
       (TDen - tn) * (TDen - tn) * A[2] + 2 * (TDen - tn) * tn * B[2] + tn * tn * C[2] >>

\* bezier_curve with the cross term (1-t)t in place of 2(1-t)t
bezier_curve_cross_halved(tn, A, B, C) ==
    << (TDen - tn) * (TDen - tn) * A[1] + (TDen - tn) * tn * C[1] + tn * tn * B[1],
       (TDen - tn) * (TDen - tn) * A[2] + (TDen - tn) * tn * C[2] + tn * tn * B[2] >>

\* The result times Scale, for t = tn / TDen.
bezier_curve(tn, A, B, C) ==
    << (TDen - tn) * (TDen - tn) * A[1] + 2 * (TDen - tn) * tn * C[1] + tn * tn * B[1],
       (TDen - tn) * (TDen - tn) * A[2] + 2 * (TDen - tn) * tn * C[2] + tn * tn * B[2] >>

----------------------------------------------------------------------------
(* generate_points_around_line *)

\* Control points (a, b, c) the sampler is called with.
ControlSets == { << <<0, 0>>, <<10, 10>>, <<3, 8>> >> }

SampleArgs ==
    { [a |-> cs[1], b |-> cs[2], c |-> cs[3], num_points |-> n, max_distance |-> d] :
        cs \in ControlSets, n \in (0 - 1) .. MaxCount, d \in (0 - 1) .. MaxDist }

\* dx = max_distance * math.cos(theta), times Scale
offset_dx(max_distance, theta) == Scale * max_distance * cos(theta)

\* offset_dy with math.cos in place of math.sin
offset_dy_cos(max_distance, theta) == Scale * max_distance * cos(theta)

\* dy = max_distance * math.sin(theta), times Scale
offset_dy(max_distance, theta) == Scale * max_distance * sin(theta)

\* new_point = (point_on_curve[0] + dx, point_on_curve[1] + dy)
new_point(point_on_curve, max_distance, theta) ==
    << point_on_curve[1] + offset_dx(max_distance, theta),
       point_on_curve[2] + offset_dy(max_distance, theta) >>

\* sample_loop drawing theta before t
RECURSIVE sample_loop_theta_first(_, _, _, _, _)
sample_loop_theta_first(i, args, s, points, draws) ==
    IF i >= args.num_points
    THEN [points |-> points, rng |-> s, draws |-> draws]
    ELSE LET theta          == uniform_0_2pi(s)
             s1             == NextState(s)
             t              == uniform_0_1(s1)
             s2             == NextState(s1)
             point_on_curve == bezier_curve(t, args.a, args.b, args.c)
         IN  sample_loop_theta_first(i + 1, args, s2,
                         Append(points, new_point(point_on_curve, args.max_distance, theta)),
                         draws \o << [for |-> "theta", state |-> s, value |-> theta],
                                     [for |-> "t", state |-> s1, value |-> t] >>)

\* The loop "for _ in range(num_points)" from its i-th iteration (i counts from 0)
\* in generator state s.  draws lists what the loop took from the generator, in order.
RECURSIVE sample_loop(_, _, _, _, _)
sample_loop(i, args, s, points, draws) ==
    IF i >= args.num_points
    THEN [points |-> points, rng |-> s, draws |-> draws]
    ELSE LET t              == uniform_0_1(s)
             s1             == NextState(s)
             point_on_curve == bezier_curve(t, args.a, args.b, args.c)
             theta          == uniform_0_2pi(s1)
             s2             == NextState(s1)
         IN  sample_loop(i + 1, args, s2,
                         Append(points, new_point(point_on_curve, args.max_distance, theta)),
                         draws \o << [for |-> "t", state |-> s, value |-> t],
                                     [for |-> "theta", state |-> s1, value |-> theta] >>)

\* The body looping over range(num_points + 1)
generate_points_body_one_more(args, s) ==
    sample_loop(0, [args EXCEPT !.num_points = @ + 1], s, <<>>, <<>>)

\* The body with points kept from the previous call instead of starting empty
generate_points_body_kept(args, s) == sample_loop(0, args, s, last.ret, <<>>)

\* The body of generate_points_around_line, run in generator state s.
generate_points_body(args, s) == sample_loop(0, args, s, <<>>, <<>>)

\* cache_hit without the decorator: no call is answered from the cache
cache_hit_never(args) == FALSE

\* st.cache_data: is there an entry for these arguments?
cache_hit(args) == \E e \in cache : e.args = args

\* st.cache_data: the value stored for these arguments
cache_value(args) == (CHOOSE e \in cache : e.args = args).value

NoArgs == [a |-> <<0, 0>>, b |-> <<0, 0>>, c |-> <<0, 0>>, num_points |-> 0, max_distance |-> 0]

NoCall == [kind |-> "none", n |-> 0, args |-> NoArgs, rngBefore |-> 0, cached |-> <<>>,
           draws |-> <<>>, raised |-> FALSE, ret |-> <<>>]

NoRef == [kind |-> "none", live |-> FALSE, args |-> NoArgs, rngBefore |-> 0,
          cached |-> <<>>, ret |-> <<>>]

\* A call generate_points_around_line(a, b, c, num_points, max_distance): the
\* decorator returns the stored value on a hit, and on a miss runs the body and
\* stores what it returned.  Neither the decorator nor the body checks the
\* arguments or raises: raised is FALSE after every call.
generate_points_around_line(args) ==
    /\ calls < MaxCalls
    /\ LET hit == cache_hit(args)
           run == generate_points_body(args, rng)
           ret == IF hit THEN cache_value(args) ELSE run.points
           now == [kind      |-> IF hit THEN "hit" ELSE "miss",
                   n         |-> calls + 1,
                   args      |-> args,
                   rngBefore |-> rng,
                   cached    |-> IF hit THEN <<cache_value(args)>> ELSE <<>>,
                   draws     |-> IF hit THEN <<>> ELSE run.draws,
                   raised    |-> FALSE,
                   ret       |-> ret]
       IN  /\ rng' = IF hit THEN rng ELSE run.rng
           /\ cache' = IF hit THEN cache ELSE cache \cup {[args |-> args, value |-> run.points]}
           /\ last' = now
           /\ ref' = IF ref.kind = "none"
                     THEN [kind |-> now.kind, live |-> TRUE, args |-> args,
                           rngBefore |-> rng, cached |-> now.cached, ret |-> ret]
                     ELSE ref
    /\ calls' = calls + 1
    /\ UNCHANGED curve

\* Generator states a later process starts in.
Seeds == {0, NextState(NextState(0))}

\* A process starts: importing random seeds the generator from the operating
\* system, and the decorator's cache is empty.  What the first process returned
\* stays on record in ref (live no longer: it is another process's call).
ProcessStart ==
    /\ rng' \in Seeds
    /\ cache' = {}
    /\ calls' = 0
    /\ last' = NoCall
    /\ ref' = [ref EXCEPT !.live = FALSE]
    /\ UNCHANGED curve

----------------------------------------------------------------------------
(* Direct calls of bezier_curve *)

\* t = tn / TDen, from -1 to 2
TNums == (0 - TDen) .. (2 * TDen)

Coords == {0, 3, 8, 10}

Points == Coords \X Coords

NoCurve == [called |-> FALSE, tn |-> 0, A |-> <<0, 0>>, B |-> <<0, 0>>, C |-> <<0, 0>>,
            out |-> <<0, 0>>]

\* bezier_curve(t, A, B, C) is called with the arguments on record in curve.
BezierCurveCall ==
    /\ ~curve.called
    /\ curve' = [curve EXCEPT !.called = TRUE,
                              !.out = bezier_curve(curve.tn, curve.A, curve.B, curve.C)]
    /\ UNCHANGED <<rng, cache, calls, last, ref>>

----------------------------------------------------------------------------
(* Specifications *)

\* One process calling the sampler.
Init ==
    /\ rng \in RngStates
    /\ cache = {}
    /\ calls = 0
    /\ last = NoCall
    /\ ref = NoRef
    /\ curve = NoCurve

Next == \E args \in SampleArgs : generate_points_around_line(args)

Spec == Init /\ [][Next]_vars

\* Processes, one after another, calling the sampler.
InitProcesses ==
    /\ rng \in Seeds
    /\ cache = {}
    /\ calls = 0
    /\ last = NoCall
    /\ ref = NoRef
    /\ curve = NoCurve

NextProcesses ==
    \/ \E args \in SampleArgs : generate_points_around_line(args)
    \/ ProcessStart

SpecProcesses == InitProcesses /\ [][NextProcesses]_vars

\* bezier_curve applied to arguments drawn from TNums and Points.
InitCurve ==
    /\ rng = 0
    /\ cache = {}
    /\ calls = 0
    /\ last = NoCall
    /\ ref = NoRef
    /\ curve \in { [called |-> FALSE, tn |-> tn, A |-> A, B |-> B, C |-> C, out |-> <<0, 0>>] :
                     tn \in TNums, A \in Points, B \in Points, C \in Points }

NextCurve == BezierCurveCall

SpecCurve == InitCurve /\ [][NextCurve]_vars

----------------------------------------------------------------------------
(* Claims about bezier_curve, under SpecCurve *)

\* P times Scale
Scaled(P) == << Scale * P[1], Scale * P[2] >>

\* C1: endpoint exactness.  A call of bezier_curve with t = 0 returns A and a
\* call with t = 1 returns B, in both coordinates, whatever C is.
C1_EndpointExactness ==
    curve.called =>
        /\ (curve.tn = 0 => curve.out = Scaled(curve.A))
        /\ (curve.tn = TDen => curve.out = Scaled(curve.B))

\* bezier_curve has returned B at t = 1, for A, B, C all different.
C1_Witness ==
    /\ curve.called
    /\ curve.tn = TDen
    /\ curve.A # curve.B /\ curve.C # curve.B /\ curve.C # curve.A
    /\ curve.out = Scaled(curve.B)

\* The call bezier_curve(0.5, (0,0), (10,10), (3,8)) has been made.
C2_Scenario ==
    /\ curve.called
    /\ 2 * curve.tn = TDen
    /\ curve.A = <<0, 0>> /\ curve.B = <<10, 10>> /\ curve.C = <<3, 8>>

\* C2 as stated: for A = (0,0), B = (10,10), C = (3,8) and t = 0.5, bezier_curve
\* returns (5.5, 10.5).
C2_Original ==
    C2_Scenario => (2 * curve.out[1] = 11 * Scale /\ 2 * curve.out[2] = 21 * Scale)

\* C2 as amended: for A = (0,0), B = (10,10), C = (3,8) and t = 0.5, bezier_curve
\* returns (4.0, 6.5): the cross term weighs C by 2 * 0.5 * 0.5 = 0.5, not by 1.
C2_ScenarioValue ==
    C2_Scenario => (curve.out[1] = 4 * Scale /\ 2 * curve.out[2] = 13 * Scale)

\* The scenario's call has returned, with a point that is not (5.5, 10.5).
C2_Witness ==
    /\ C2_Scenario
    /\ 2 * curve.out[1] # 11 * Scale

\* C9: bezier_curve is total, with no domain check.  For every t, also t < 0 and
\* t > 1, the call returns without error the point whose coordinates are
\* (1-t)^2 * A + 2(1-t)t * C + t^2 * B: A and B carry the end weights, C the
\* cross term; the three weights sum to 1, so A = B = C = P gives P for any t.
C9_TotalPolynomial ==
    curve.called =>
        LET wA == (TDen - curve.tn) * (TDen - curve.tn)
            wC == 2 * (TDen - curve.tn) * curve.tn
            wB == curve.tn * curve.tn
        IN  /\ wA + wC + wB = Scale
            /\ \A k \in 1 .. 2 :
                   curve.out[k] = wA * curve.A[k] + wC * curve.C[k] + wB * curve.B[k]
            /\ (curve.A = curve.B /\ curve.B = curve.C) => curve.out = Scaled(curve.A)

\* bezier_curve has returned for a t > 1 and three different control points,
\* with a point that none of them is.
C9_Witness ==
    /\ curve.called
    /\ curve.tn > TDen
    /\ curve.A # curve.B /\ curve.C # curve.B /\ curve.C # curve.A
    /\ curve.out \notin {Scaled(curve.A), Scaled(curve.B), Scaled(curve.C)}

----------------------------------------------------------------------------
(* Claims about generate_points_around_line, under Spec *)

\* The generator state k draws after state s
RECURSIVE Advance(_, _)
Advance(s, k) == IF k = 0 THEN s ELSE Advance(NextState(s), k - 1)

\* The squared distance of two scaled points
DistSq(P, Q) == (P[1] - Q[1]) * (P[1] - Q[1]) + (P[2] - Q[2]) * (P[2] - Q[2])

\* The points of the curve at the parameters t = 0, 1/TDen, ..., 1
CurvePoints(args) == { bezier_curve(tn, args.a, args.b, args.c) : tn \in 0 .. TDen }

Called == last.kind # "none"

\* C3: a call with count >= 0 returns a sequence of exactly count points; a call
\* with count = 0 returns the empty sequence and is no error.
C3_LengthIsCount ==
    (Called /\ last.args.num_points >= 0) =>
        /\ ~last.raised
        /\ Len(last.ret) = last.args.num_points

\* After a call with count = 0 that returned the empty sequence, a call with the
\* largest count has returned that many points.
C3_Witness ==
    /\ ref.kind = "miss" /\ ref.args.num_points = 0 /\ ref.ret = <<>>
    /\ last.kind = "miss" /\ last.n > 1
    /\ last.args.num_points = MaxCount /\ Len(last.ret) = MaxCount

\* C4: every point a call with max_distance >= 0 returns is a curve point plus an
\* offset of that magnitude: some t in [0,1] has the point at Euclidean distance
\* exactly max_distance from bezier_curve(t), so that with max_distance = 0 the
\* point is a point of the curve.
C4_FixedOffset ==
    (Called /\ last.args.max_distance >= 0) =>
        \A i \in 1 .. Len(last.ret) :
            \E Q \in CurvePoints(last.args) :
                /\ DistSq(last.ret[i], Q)
                     = (Scale * last.args.max_distance) * (Scale * last.args.max_distance)
                /\ (last.args.max_distance = 0 => last.ret[i] = Q)

\* A call with max_distance > 0 has returned two points, neither on the curve,
\* offset in different directions.
C4_Witness ==
    /\ last.kind = "miss"
    /\ last.args.max_distance > 0
    /\ Len(last.ret) >= 2
    /\ \A i \in 1 .. Len(last.ret) : last.ret[i] \notin CurvePoints(last.args)
    /\ last.draws[2].value # last.draws[4].value

\* C8: a call with a negative count or a negative max_distance either raises or
\* returns zero/empty output: no points, or points at distance zero from the
\* curve; a negative max_distance never yields a point off the curve.
C8_NegativeRejected ==
    (Called /\ (last.args.num_points < 0 \/ last.args.max_distance < 0)) =>
        \/ last.raised
        \/ \A i \in 1 .. Len(last.ret) : last.ret[i] \in CurvePoints(last.args)

\* C10: an execution of the body with count >= 0 takes exactly 2 * count draws,
\* alternating: for the i-th point, draw 2i-1 is t, in [0,1], and draw 2i is
\* theta, in [0, 2*pi); the i-th point of the output is
\* bezier_curve(t_i) + max_distance * (cos theta_i, sin theta_i), built from these
\* two draws alone, and the points are in the order of the draws.
C10_TwoDrawsPerPoint ==
    (last.kind = "miss" /\ last.args.num_points >= 0) =>
        /\ Len(last.draws) = 2 * last.args.num_points
        /\ Len(last.ret) = last.args.num_points
        /\ rng = Advance(last.rngBefore, 2 * last.args.num_points)
        /\ \A i \in 1 .. last.args.num_points :
               LET dt     == last.draws[2 * i - 1]
                   dtheta == last.draws[2 * i]
               IN  /\ dt.for = "t" /\ dtheta.for = "theta"
                   /\ dt.state = Advance(last.rngBefore, 2 * i - 2)
                   /\ dtheta.state = Advance(last.rngBefore, 2 * i - 1)
                   /\ dt.value = random(dt.state) /\ dt.value \in 0 .. TDen
                   /\ dtheta.value = random(dtheta.state) /\ dtheta.value \in 0 .. (Grid - 1)
                   /\ last.ret[i] =
                        << bezier_curve(dt.value, last.args.a, last.args.b, last.args.c)[1]
                             + Scale * last.args.max_distance * cos(dtheta.value),
                           bezier_curve(dt.value, last.args.a, last.args.b, last.args.c)[2]
                             + Scale * last.args.max_distance * sin(dtheta.value) >>

\* The body has run for two points with max_distance > 0, drawing a t that is not
\* the theta drawn after it, and the two points differ.
C10_Witness ==
    /\ last.kind = "miss"
    /\ last.args.num_points = 2
    /\ last.args.max_distance > 0
    /\ Len(last.draws) = 4
    /\ last.draws[1].value # last.draws[2].value
    /\ last.ret[1] # last.ret[2]

----------------------------------------------------------------------------
(* Claims about the random source and the cache *)

\* What the body would return if it ran for the last call's arguments in the
\* generator state the call found
DrawnAfresh == generate_points_body(last.args, last.rngBefore).points

\* The last call had valid arguments and asked for at least one point.
ValidCall == Called /\ last.args.num_points >= 1 /\ last.args.max_distance >= 0

SameSourceSameArgs ==
    /\ ref.kind # "none"
    /\ Called
    /\ last.args = ref.args
    /\ last.rngBefore = ref.rngBefore

====
